---- MODULE Spec2Model ----
(***************************************************************************)
(* Verification model of the precise DPA construction                      *)
(* (crates/automata-learning/src/passive/precise.rs) and of the            *)
(* bisimulation partition refinement                                       *)
(* (crates/automata/src/minimization/partition_refinement.rs), with the    *)
(* operations of the automata crate they rest on: collection               *)
(* (representation.rs), DFA equivalence (automaton/reachability.rs) and    *)
(* the builder (ts/builder.rs).                                            *)
(*                                                                         *)
(* States, classes, levels and symbols are the 0-based indices of the      *)
(* Rust code.  A Vec or array is a function on 0..len-1, an iterator is a  *)
(* sequence, Option<index> is an index or None, and a panic is a result    *)
(* record with ok = FALSE carrying the panic message.                      *)
(***************************************************************************)
EXTENDS Integers, Sequences, FiniteSets, TLC

VARIABLES
    fwpm,       \* the FWPM a precise DPA is built from, NoFwpm when there is none
    cong,       \* PreciseDPA.cong : the leading right congruence
    dfas,       \* PreciseDPA.dfas : class -> level -> progress DFA
    width,      \* the const generic N of PreciseDPA<A, N>
    pc,         \* position of the run that drives the engine
    q,          \* the composite state (PState) the run is in
    prev,       \* the composite state the last step was taken from
    word,       \* the symbols read so far
    colors,     \* the colors emitted so far, one per symbol read
    err,        \* the panic message, "" while nothing has panicked
    seen,       \* reachability exploration: the visited set
    todo,       \* reachability exploration: discovered, not yet expanded
    mm,         \* partition refinement: the input automaton
    variant,    \* "mealy" or "moore"
    partition,  \* the candidate partition (Vec<BTreeSet>)
    queue,      \* the worklist of splitter blocks (Vec<BTreeSet>)
    rpc,        \* position in the refinement loop
    set,        \* the block popped from the worklist
    pending,    \* the (sym, x) splitters of set that are not yet applied
    out,        \* the minimized automaton, once built
    round,      \* the number of minimizations that fed their output back
    input,      \* automata crate: the transition system an operation is called on
    other,      \* the second operand of the operation, None when it has none
    arg,        \* the state index handed to the operation, None when it has none
    result,     \* what the operation returned, None before it has
    op          \* position of the call

pvars == <<fwpm, cong, dfas, width, pc, q, prev, word, colors, err>>
xvars == <<seen, todo>>
mvars == <<mm, variant, partition, queue, rpc, set, pending, out, round>>
avars == <<input, other, arg, result, op>>
vars == <<fwpm, cong, dfas, width, pc, q, prev, word, colors, err, seen, todo,
          mm, variant, partition, queue, rpc, set, pending, out, round,
          input, other, arg, result, op>>

(***************************************************************************)
(* Bounds of the model.                                                    *)
(***************************************************************************)
MaxClasses == 2     \* classes of the leading congruence
MaxWidth == 2       \* progress DFAs per class (N)
MaxWord == 3        \* length of the words that are run
NumSymbols == 2     \* alphabet size of the enumerated inputs

(***************************************************************************)
(* Option::None for state indices.                                         *)
(***************************************************************************)
None == -1

Min(S) == CHOOSE x \in S : \A y \in S : x <= y
Max(S) == CHOOSE x \in S : \A y \in S : y <= x

(***************************************************************************)
(* Deterministic transition systems: states 0..size-1, alphabet 0..k-1,    *)
(* delta[s][a] the target of the a-edge of s or None, color[s] the state   *)
(* color.                                                                  *)
(***************************************************************************)
Symbols(ts) == 0..(ts.k - 1)
States(ts) == 0..(ts.size - 1)

\* Deterministic::successor_index: None when the state or the edge is missing
successor_index(ts, s, a) ==
    IF s \in States(ts) /\ a \in Symbols(ts) THEN ts.delta[s][a] ELSE None

IsComplete(ts) ==
    \A s \in States(ts) : \A a \in Symbols(ts) : ts.delta[s][a] \in States(ts)

\* the one-state accepting DFA with a self loop on every symbol
padding_universal_dfa(k) ==
    [size |-> 1, k |-> k, initial |-> 0,
     delta |-> [s \in {0} |-> [a \in 0..(k - 1) |-> 0]],
     color |-> [s \in {0} |-> TRUE]]

(***************************************************************************)
(* The inputs the runs are drawn from.  Progress DFAs over k symbols:      *)
(*   SinkDfa    rejecting initial state 0, accepting sink 1 entered on the *)
(*              last symbol (the shape of de0 and da0 in tests::precise_dpa)*)
(*   ToggleDfa  initial state 1, accepting state 0, symbol 0 toggles       *)
(*   FullDfa    two accepting states, initial state 1                      *)
(*   RejectDfa  one rejecting state                                        *)
(* The top level of a family is the padding DFA, FullDfa or (ill-formed)   *)
(* RejectDfa; the levels below it are SinkDfa or ToggleDfa.                *)
(***************************************************************************)
SinkDfa(k) ==
    [size |-> 2, k |-> k, initial |-> 0,
     delta |-> [s \in 0..1 |-> [a \in 0..(k - 1) |->
                    IF s = 1 \/ a = k - 1 THEN 1 ELSE 0]],
     color |-> [s \in 0..1 |-> s = 1]]

ToggleDfa(k) ==
    [size |-> 2, k |-> k, initial |-> 1,
     delta |-> [s \in 0..1 |-> [a \in 0..(k - 1) |->
                    IF a = 0 THEN 1 - s ELSE s]],
     color |-> [s \in 0..1 |-> s = 0]]

FullDfa(k) ==
    [size |-> 2, k |-> k, initial |-> 1,
     delta |-> [s \in 0..1 |-> [a \in 0..(k - 1) |-> 0]],
     color |-> [s \in 0..1 |-> TRUE]]

RejectDfa(k) ==
    [size |-> 1, k |-> k, initial |-> 0,
     delta |-> [s \in {0} |-> [a \in 0..(k - 1) |-> 0]],
     color |-> [s \in {0} |-> FALSE]]

LevelPool(i, N, k) ==
    IF i = N - 1
    THEN {padding_universal_dfa(k), FullDfa(k), RejectDfa(k)}
    ELSE {SinkDfa(k), ToggleDfa(k)}

DfaPool(k) ==
    {padding_universal_dfa(k), FullDfa(k), RejectDfa(k), SinkDfa(k), ToggleDfa(k)}

FamilyPool(N, k) ==
    {f \in [0..(N - 1) -> DfaPool(k)] : \A i \in 0..(N - 1) : f[i] \in LevelPool(i, N, k)}

\* n classes in a cycle: symbol 0 moves to the next class, the others stay
CycleCong(n, k, e) ==
    [size |-> n, k |-> k, initial |-> e,
     delta |-> [c \in 0..(n - 1) |-> [a \in 0..(k - 1) |->
                    IF a = 0 THEN (c + 1) % n ELSE c]]]

EnumeratedInputs ==
    UNION { UNION { UNION {
        { [cong |-> CycleCong(n, NumSymbols, e), dfas |-> d, width |-> N] :
            d \in [0..(n - 1) -> FamilyPool(N, NumSymbols)] }
        : e \in 0..(n - 1) } : N \in 1..MaxWidth } : n \in 1..MaxClasses }

(***************************************************************************)
(* The input of tests::precise_dpa: symbols a, b, c are 0, 1, 2.           *)
(***************************************************************************)
Row3(x, y, z) == [a \in 0..2 |-> IF a = 0 THEN x ELSE IF a = 1 THEN y ELSE z]

test_cong ==
    [size |-> 2, k |-> 3, initial |-> 0,
     delta |-> [c \in 0..1 |-> IF c = 0 THEN Row3(1, 0, 0) ELSE Row3(0, 1, 1)]]

de0 ==
    [size |-> 2, k |-> 3, initial |-> 0,
     delta |-> [s \in 0..1 |-> IF s = 0 THEN Row3(0, 1, 0) ELSE Row3(1, 1, 1)],
     color |-> [s \in 0..1 |-> s = 1]]

da0 ==
    [size |-> 2, k |-> 3, initial |-> 0,
     delta |-> [s \in 0..1 |-> IF s = 0 THEN Row3(0, 0, 1) ELSE Row3(1, 1, 1)],
     color |-> [s \in 0..1 |-> s = 1]]

de1 ==
    [size |-> 3, k |-> 3, initial |-> 0,
     delta |-> [s \in 0..2 |-> IF s = 0 THEN Row3(0, 2, 1)
                               ELSE IF s = 1 THEN Row3(0, 2, 2) ELSE Row3(2, 2, 2)],
     color |-> [s \in 0..2 |-> s = 2]]

full ==
    [size |-> 2, k |-> 3, initial |-> 0,
     delta |-> [s \in 0..1 |-> Row3(1, 1, 1)],
     color |-> [s \in 0..1 |-> s = 1]]

dfas_e == [i \in 0..2 |-> IF i = 0 THEN de0 ELSE IF i = 1 THEN de1 ELSE full]
dfas_a == [i \in 0..2 |-> IF i = 0 THEN da0 ELSE full]

TestInput ==
    [cong |-> test_cong,
     dfas |-> [c \in 0..1 |-> IF c = 0 THEN dfas_e ELSE dfas_a],
     width |-> 3]

(***************************************************************************)
(* Inputs with incomplete collaborators: PartialDfa has one state and no   *)
(* edge on the last symbol, PartialCong is CycleCong without the edge of   *)
(* the last class on the last symbol.  A family takes SinkDfa or a         *)
(* rejecting PartialDfa below the top level and the padding DFA or an      *)
(* accepting PartialDfa at the top level.                                  *)
(***************************************************************************)
PartialDfa(k, acc) ==
    [size |-> 1, k |-> k, initial |-> 0,
     delta |-> [s \in {0} |-> [a \in 0..(k - 1) |-> IF a = k - 1 THEN None ELSE 0]],
     color |-> [s \in {0} |-> acc]]

PartialCong(n, k, e) ==
    [size |-> n, k |-> k, initial |-> e,
     delta |-> [c \in 0..(n - 1) |-> [a \in 0..(k - 1) |->
                    IF c = n - 1 /\ a = k - 1 THEN None
                    ELSE IF a = 0 THEN (c + 1) % n ELSE c]]]

PartialFamilyPool(N, k) ==
    {[i \in 0..(N - 1) |->
        IF i = N - 1
        THEN IF g[i] = 1 THEN PartialDfa(k, TRUE) ELSE padding_universal_dfa(k)
        ELSE IF g[i] = 1 THEN PartialDfa(k, FALSE) ELSE SinkDfa(k)] :
     g \in [0..(N - 1) -> 0..1]}

PartialInputs ==
    UNION { UNION { UNION {
        { [cong |-> c, dfas |-> d, width |-> N] :
            c \in {CycleCong(n, NumSymbols, e), PartialCong(n, NumSymbols, e)},
            d \in [0..(n - 1) -> PartialFamilyPool(N, NumSymbols)] }
        : e \in 0..(n - 1) } : N \in 1..MaxWidth } : n \in 1..MaxClasses }

Inputs == EnumeratedInputs \cup {TestInput} \cup PartialInputs

(***************************************************************************)
(* Well-formedness of an input (spec sections 3, 4.1 and 6).               *)
(***************************************************************************)
NumClasses == cong.size
Levels == 0..(width - 1)
Classes == 0..(NumClasses - 1)

TopAccepting ==
    \A c \in Classes : \A s \in States(dfas[c][width - 1]) : dfas[c][width - 1].color[s]

WellFormed ==
    /\ IsComplete(cong)
    /\ cong.initial \in Classes
    /\ \A c \in Classes : \A i \in Levels :
          /\ IsComplete(dfas[c][i])
          /\ dfas[c][i].initial \in States(dfas[c][i])
    /\ TopAccepting

(***************************************************************************)
(* Results of operations that may panic.                                   *)
(***************************************************************************)
Panic(msg) == [ok |-> FALSE, msg |-> msg]
IndexOutOfBounds == Panic("index out of bounds")

NoMachine == [size |-> 0]
NoFwpm == [complexity |-> None]
NoState == [class |-> None, progress_classes |-> <<>>, progress_states |-> <<>>]

(***************************************************************************)
(* PState::from_iters: c = [0; N], q = [0; N]; c[i] = o for the i-th item  *)
(* of pc and q[i] = o for the i-th item of pq.  Writing item i >= N is an  *)
(* out-of-bounds array access.                                             *)
(***************************************************************************)
from_iters(leading, pc_items, pq_items) ==
    IF Len(pc_items) > width \/ Len(pq_items) > width
    THEN IndexOutOfBounds
    ELSE [ok |-> TRUE,
          state |-> [class |-> leading,
                     progress_classes |->
                        [i \in Levels |-> IF i < Len(pc_items) THEN pc_items[i + 1] ELSE 0],
                     progress_states |->
                        [i \in Levels |-> IF i < Len(pq_items) THEN pq_items[i + 1] ELSE 0]]]

(***************************************************************************)
(* PreciseDPA::new: e = cong.initial(); the initial PState is              *)
(* from_iters(e, [e; N], (0..dfas.len()).map(|i| dfas[i][e].initial())).   *)
(* dfas is indexed class first, so dfas[i][e] is level e of class i and    *)
(* the access is out of bounds when e >= N.                                *)
(***************************************************************************)
PreciseDPA_new ==
    LET e == cong.initial
        len == Cardinality(DOMAIN dfas)
    IN  IF len > 0 /\ e \notin Levels
        THEN IndexOutOfBounds
        ELSE from_iters(e, [i \in 1..width |-> e],
                        [i \in 1..len |-> dfas[i - 1][e].initial])

(***************************************************************************)
(* Iterator::position on the accepting flags: the first index whose flag   *)
(* is set, scanning from index i upwards; None when there is none.         *)
(***************************************************************************)
RECURSIVE position_from(_, _)
position_from(progress, i) ==
    IF i \notin DOMAIN progress THEN None
    ELSE IF progress[i].b THEN i
    ELSE position_from(progress, i + 1)

\* mutant of position: the last accepting index instead of the first
position_rev(progress) ==
    LET A == {i \in DOMAIN progress : progress[i].b} IN IF A = {} THEN None ELSE Max(A)

\* mutant of position: the index counted from one
position_one_based(progress) ==
    LET i == position_from(progress, 0) IN IF i = None THEN None ELSE i + 1

position(progress) == position_from(progress, 0)

(***************************************************************************)
(* PreciseDPA::take_precise_transition(q, a).                              *)
(***************************************************************************)
\* mutant of progress_of: every level follows the DFA of the current class,
\* not of the class the level was last reset to
progress_of_current_class(st, a) ==
    [i \in Levels |->
        LET c == st.class
            p == IF c \in DOMAIN dfas
                 THEN successor_index(dfas[c][i], st.progress_states[i], a)
                 ELSE None
        IN  [c |-> c, p |-> p,
             b |-> IF p = None THEN FALSE ELSE dfas[c][i].color[p]]]

\* mutant of progress_of: a progress DFA without the edge stays in its state
progress_of_lenient(st, a) ==
    [i \in Levels |->
        LET c == st.progress_classes[i]
            n == IF c \in DOMAIN dfas
                 THEN successor_index(dfas[c][i], st.progress_states[i], a)
                 ELSE None
            p == IF n = None /\ c \in DOMAIN dfas
                    /\ st.progress_states[i] \in States(dfas[c][i])
                 THEN st.progress_states[i] ELSE n
        IN  [c |-> c, p |-> p,
             b |-> IF p = None THEN FALSE ELSE dfas[c][i].color[p]]]

progress_of(st, a) ==
    [i \in Levels |->
        LET c == st.progress_classes[i]
            p == IF c \in DOMAIN dfas
                 THEN successor_index(dfas[c][i], st.progress_states[i], a)
                 ELSE None
        IN  [c |-> c, p |-> p,
             b |-> IF p = None THEN FALSE ELSE dfas[c][i].color[p]]]

\* mutant of reached_pstate: the accepting level itself is carried, not reset
reached_pstate_inclusive(d, progress, least_accepting) ==
    from_iters(d,
        [j \in 1..width |-> IF j - 1 <= least_accepting THEN progress[j - 1].c ELSE d],
        [j \in 1..width |-> IF j - 1 <= least_accepting
                            THEN progress[j - 1].p
                            ELSE dfas[d][j - 1].initial])

\* mutant of reached_pstate: the class of the reached state is the class
\* tracked at level 0, not the successor class d
reached_pstate_tracked_class(d, progress, least_accepting) ==
    from_iters(IF 0 < least_accepting THEN progress[0].c ELSE d,
        [j \in 1..width |-> IF j - 1 < least_accepting THEN progress[j - 1].c ELSE d],
        [j \in 1..width |-> IF j - 1 < least_accepting
                            THEN progress[j - 1].p
                            ELSE dfas[d][j - 1].initial])

reached_pstate(d, progress, least_accepting) ==
    from_iters(d,
        [j \in 1..width |-> IF j - 1 < least_accepting THEN progress[j - 1].c ELSE d],
        [j \in 1..width |-> IF j - 1 < least_accepting
                            THEN progress[j - 1].p
                            ELSE dfas[d][j - 1].initial])

take_precise_transition(st, a) ==
    LET d == successor_index(cong, st.class, a) IN
    IF d = None THEN Panic("Leading congruence must be complete")
    ELSE IF \E i \in Levels : st.progress_classes[i] \notin DOMAIN dfas
    THEN IndexOutOfBounds
    ELSE LET progress == progress_of(st, a) IN
         IF \E i \in Levels : progress[i].p = None
         THEN Panic("all dfas must be complete")
         ELSE LET least_accepting == position(progress) IN
              IF least_accepting = None
              THEN Panic("The last DFA must be accepting!")
              ELSE IF d \notin DOMAIN dfas THEN IndexOutOfBounds
              ELSE LET r == reached_pstate(d, progress, least_accepting) IN
                   IF r.ok
                   THEN [ok |-> TRUE, color |-> least_accepting, target |-> r.state]
                   ELSE r

(***************************************************************************)
(* Spec: a run of the engine.  New constructs the precise DPA from an      *)
(* input, Step reads one more symbol with take_precise_transition.         *)
(***************************************************************************)
\* the variables of the automata crate's operations while none is called
CallIdle ==
    /\ input = None
    /\ other = None
    /\ arg = None
    /\ result = None
    /\ op = "idle"

\* the refinement variables while no refinement runs
RefineIdle ==
    /\ mm = NoMachine
    /\ variant = ""
    /\ partition = <<>>
    /\ queue = <<>>
    /\ rpc = "idle"
    /\ set = {}
    /\ pending = <<>>
    /\ out = NoMachine
    /\ round = 0

Init ==
    /\ \E in \in Inputs :
          /\ cong = in.cong
          /\ dfas = in.dfas
          /\ width = in.width
    /\ fwpm = NoFwpm
    /\ pc = "start"
    /\ q = NoState
    /\ prev = NoState
    /\ word = <<>>
    /\ colors = <<>>
    /\ err = ""
    /\ seen = {}
    /\ todo = {}
    /\ RefineIdle
    /\ CallIdle

New ==
    /\ pc = "start"
    /\ LET r == PreciseDPA_new IN
          IF r.ok
          THEN /\ pc' = "ready"
               /\ q' = r.state
               /\ err' = err
          ELSE /\ pc' = "panicked"
               /\ q' = q
               /\ err' = r.msg
    /\ UNCHANGED <<fwpm, cong, dfas, width, prev, word, colors, seen, todo, mvars, avars>>

Step(a) ==
    /\ pc = "ready"
    /\ Len(word) < MaxWord
    /\ prev' = q
    /\ word' = Append(word, a)
    /\ LET r == take_precise_transition(q, a) IN
          IF r.ok
          THEN /\ pc' = pc
               /\ q' = r.target
               /\ colors' = Append(colors, r.color)
               /\ err' = err
          ELSE /\ pc' = "panicked"
               /\ q' = q
               /\ colors' = colors
               /\ err' = r.msg
    /\ UNCHANGED <<fwpm, cong, dfas, width, seen, todo, mvars, avars>>

Next ==
    \/ New
    \/ \E a \in Symbols(cong) : Step(a)

Spec == Init /\ [][Next]_vars

(***************************************************************************)
(* Claims about the precise DPA engine.                                    *)
(***************************************************************************)
Stepped == pc = "ready" /\ Len(word) > 0
LastSymbol == word[Len(word)]
LastColor == colors[Len(colors)]

\* the levels whose active progress DFA, stepped from st on a, is accepting
AcceptingLevels(st, a) ==
    {i \in Levels :
        LET dfa == dfas[st.progress_classes[i]][i]
            p == successor_index(dfa, st.progress_states[i], a)
        IN  p # None /\ dfa.color[p]}

\* C1: the color returned by take_precise_transition(q, a) is the smallest
\* level i whose progress DFA (class q.progress_classes[i], level i), stepped
\* from q.progress_states[i] on a, lands in an accepting state.
C1_ColorIsLeastAccepting ==
    Stepped =>
        /\ AcceptingLevels(prev, LastSymbol) # {}
        /\ LastColor = Min(AcceptingLevels(prev, LastSymbol))

\* a step whose color is neither the lowest nor the highest level, so that a
\* higher level accepts as well
C1_Witness ==
    /\ Stepped
    /\ LastColor = 1
    /\ Cardinality(AcceptingLevels(prev, LastSymbol)) > 1

\* C2: the successor of a step with color k and leading successor d keeps
\* (q.progress_classes[i], p_i) for every level i < k and has, for every level
\* i >= k, progress class d and the initial state of the level-i DFA of d.
C2_CarryBelowResetFromColor ==
    Stepped =>
        LET a == LastSymbol
            k == LastColor
            d == successor_index(cong, prev.class, a)
        IN  /\ q.class = d
            /\ \A i \in Levels :
                  IF i < k
                  THEN /\ q.progress_classes[i] = prev.progress_classes[i]
                       /\ q.progress_states[i] =
                            successor_index(dfas[prev.progress_classes[i]][i],
                                            prev.progress_states[i], a)
                  ELSE /\ q.progress_classes[i] = d
                       /\ q.progress_states[i] = dfas[d][i].initial

\* a step that changes the class, carries a level whose DFA state moved and
\* resets a level to another class
C2_Witness ==
    /\ Stepped
    /\ q.class # prev.class
    /\ \E i \in Levels : i < LastColor /\ q.progress_states[i] # prev.progress_states[i]
    /\ \E i \in Levels : i >= LastColor /\ q.progress_classes[i] # prev.progress_classes[i]

\* the initial composite state of spec section 3
ExpectedInitial ==
    [class |-> cong.initial,
     progress_classes |-> [i \in Levels |-> cong.initial],
     progress_states |-> [i \in Levels |-> dfas[cong.initial][i].initial]]

\* C3: for every well-formed input PreciseDPA::new yields the initial state
\* (e, [e] x N, s) with s[i] the initial state of the level-i DFA of class e.
C3_NewYieldsInitialState ==
    (pc # "start" /\ word = <<>> /\ WellFormed) =>
        (pc = "ready" /\ q = ExpectedInitial)

\* C4: with a complete leading congruence, complete progress DFAs and an
\* all-accepting top level, no step from a reachable composite state fails.
C4_StepNeverFails ==
    (WellFormed /\ Len(word) > 0) => pc # "panicked"

(***************************************************************************)
(* The direct evaluation of the colors of a word (spec section 8): level i *)
(* follows the progress DFA of the class the leading congruence was in     *)
(* when the level was last reset, run on the symbols read since then; a    *)
(* level is reset at every position whose color is at most i.              *)
(***************************************************************************)
RECURSIVE RunTs(_, _, _)
RunTs(ts, s, w) ==
    IF w = <<>> THEN s ELSE RunTs(ts, ts.delta[s][Head(w)], Tail(w))

ClassAt(w, j) == RunTs(cong, cong.initial, SubSeq(w, 1, j))

RECURSIVE RefColor(_, _)
RefResetPos(w, i, j) ==
    LET R == {r \in 1..j : RefColor(w, r) <= i} IN IF R = {} THEN 0 ELSE Max(R)

RefAccepts(w, i, j) ==
    LET r == RefResetPos(w, i, j - 1)
        dfa == dfas[ClassAt(w, r)][i]
    IN  dfa.color[RunTs(dfa, dfa.initial, SubSeq(w, r + 1, j))]

RefColor(w, j) == Min({i \in Levels : RefAccepts(w, i, j)})

RefColors(w) == [j \in 1..Len(w) |-> RefColor(w, j)]

MissingTransition(st, a) ==
    \/ successor_index(cong, st.class, a) = None
    \/ \E i \in Levels :
          successor_index(dfas[st.progress_classes[i]][i], st.progress_states[i], a) = None

\* C17: a step from a state in which the leading congruence or an active
\* progress DFA has no transition on the symbol fails; it returns no color
\* and no successor.
C17_MissingTransitionFails ==
    (Len(word) > 0 /\ MissingTransition(prev, LastSymbol)) =>
        /\ pc = "panicked"
        /\ err # ""
        /\ Len(colors) = Len(word) - 1
        /\ q = prev

\* after a successful step, a step failed on an edge that a progress DFA
\* lacks while the leading congruence has its edge
C17_Witness ==
    /\ pc = "panicked"
    /\ Len(word) > 1
    /\ successor_index(cong, prev.class, LastSymbol) # None
    /\ \E i \in Levels :
          /\ prev.progress_states[i] \in States(dfas[prev.progress_classes[i]][i])
          /\ dfas[prev.progress_classes[i]][i].delta[prev.progress_states[i]][LastSymbol] = None

\* C18: an input in which the top-level DFA of some class is not accepting
\* on every state is rejected by the construction.
C18_NonAcceptingTopRejected ==
    (pc # "start" /\ ~TopAccepting) => (pc = "panicked" /\ word = <<>>)

\* C19: whatever is wrong with a collaborator makes the construction fail;
\* once it has returned, no step fails on an ill-formed input.
C19_ErrorsAreEager ==
    (pc = "panicked" /\ ~WellFormed) => word = <<>>


(***************************************************************************)
(* SpecReach: the exploration behind state_indices(), i.e.                 *)
(* reachable_state_indices(): a fixpoint search from the initial state     *)
(* with a visited set keyed by composite-state value.  Expand takes any    *)
(* discovered state and follows edges_from, one edge per symbol.           *)
(***************************************************************************)
edges_from(st) == [a \in Symbols(cong) |-> take_precise_transition(st, a)]

Discover ==
    /\ pc = "ready"
    /\ pc' = "exploring"
    /\ seen' = {q}
    /\ todo' = {q}
    /\ UNCHANGED <<fwpm, cong, dfas, width, q, prev, word, colors, err, mvars, avars>>

\* mutant of Expand: expanding a state forgets the other discovered states
Expand_forgets_pending(st) ==
    /\ pc = "exploring"
    /\ st \in todo
    /\ LET edges == edges_from(st)
           failed == {a \in Symbols(cong) : ~edges[a].ok}
       IN  IF failed = {}
           THEN LET targets == {edges[a].target : a \in Symbols(cong)} IN
                /\ seen' = seen \cup targets
                /\ todo' = targets \ seen
                /\ pc' = pc
                /\ err' = err
           ELSE /\ pc' = "panicked"
                /\ err' = edges[Min(failed)].msg
                /\ UNCHANGED <<seen, todo>>
    /\ UNCHANGED <<fwpm, cong, dfas, width, q, prev, word, colors, mvars, avars>>

Expand(st) ==
    /\ pc = "exploring"
    /\ st \in todo
    /\ LET edges == edges_from(st)
           failed == {a \in Symbols(cong) : ~edges[a].ok}
       IN  IF failed = {}
           THEN LET targets == {edges[a].target : a \in Symbols(cong)} IN
                /\ seen' = seen \cup targets
                /\ todo' = (todo \ {st}) \cup (targets \ seen)
                /\ pc' = pc
                /\ err' = err
           ELSE /\ pc' = "panicked"
                /\ err' = edges[Min(failed)].msg
                /\ UNCHANGED <<seen, todo>>
    /\ UNCHANGED <<fwpm, cong, dfas, width, q, prev, word, colors, mvars, avars>>

Explored == pc = "exploring" /\ todo = {}

NextReach ==
    \/ New
    \/ Discover
    \/ \E st \in todo : Expand(st)

SpecReach == Init /\ [][NextReach]_vars

IsTestInput == cong = TestInput.cong /\ dfas = TestInput.dfas /\ width = TestInput.width

\* C6: for the input of tests::precise_dpa (2 classes over {a,b,c}, families
\* [de0, de1, full] and [da0, full, full], width 3) exactly 8 composite states
\* are reachable from the initial state.
C6_TestInputHasEightStates ==
    (IsTestInput /\ Explored) => Cardinality(seen) = 8

\* the exploration of the test input has run to its fixpoint
C6_Witness == IsTestInput /\ Explored /\ Cardinality(seen) > 1

(***************************************************************************)
(* The states reachable from a set of composite states, as the least       *)
(* fixpoint of the step relation, computed layer by layer.                 *)
(***************************************************************************)
RECURSIVE reachable_from(_)
reachable_from(S) ==
    LET E == {e \in S \X Symbols(cong) : take_precise_transition(e[1], e[2]).ok}
        T == S \cup {take_precise_transition(e[1], e[2]).target : e \in E}
    IN  IF T = S THEN S ELSE reachable_from(T)

\* C14: in whichever order the discovered states are expanded, the exploration
\* ends with the same set of composite states, the states reachable from the
\* initial state.
C14_ExplorationOrderIrrelevant ==
    Explored => seen = reachable_from({q})

\* an exploration that had several discovered states to choose from has run
\* to its end
C14_Witness ==
    /\ Explored
    /\ ~IsTestInput
    /\ Cardinality(seen) > 3


(***************************************************************************)
(* SpecBuild: build_precise_dpa_for(fwpm).  An FWPM is a leading           *)
(* congruence, for every class the progress DFAs that decompose_dfa()      *)
(* yields for it (pms) and the complexity the dispatch reads.              *)
(***************************************************************************)
MaxComplexity == 9  \* complexities 0..MaxComplexity
MaxFamily == 2      \* progress DFAs that decompose_dfa yields for a class

MAX_PRIORITIES == 8

FamilySeqs(k) == UNION {[1..l -> {SinkDfa(k), ToggleDfa(k)}] : l \in 0..MaxFamily}

IsFwpm(f) ==
    \E n \in 1..MaxClasses : \E e \in 0..(n - 1) :
        \E pms \in [0..(n - 1) -> FamilySeqs(NumSymbols)] :
            \E c \in 0..MaxComplexity :
                f = [leading |-> CycleCong(n, NumSymbols, e), pms |-> pms,
                     complexity |-> c]

\* mutant of build_precise_dpa_for: no upper bound on the complexity
build_precise_dpa_for_unbounded(complexity) ==
    IF complexity = 0
    THEN Panic("Precise DPA construction only makes sense if at least one color exists")
    ELSE [ok |-> TRUE, N |-> complexity]

\* the match on fwpm.complexity(): the width N of the PreciseDPA<A, N> that
\* is built, or the panic of the arms 0 and _
build_precise_dpa_for(complexity) ==
    IF complexity = 0
    THEN Panic("Precise DPA construction only makes sense if at least one color exists")
    ELSE IF complexity \in 1..MAX_PRIORITIES
    THEN [ok |-> TRUE, N |-> complexity]
    ELSE Panic("Too many priorities to construct precise DPA")

\* mutant of pad_family: a family is cut to its first entry before it is
\* padded
pad_family_truncated(fam, N, k) ==
    [i \in 0..(N - 1) |-> IF i < Min({1, Len(fam)}) THEN fam[i + 1]
                          ELSE padding_universal_dfa(k)]

\* `while dfas.len() < N { dfas.push(padding_dfa.clone()) }` and try_into()
pad_family(fam, N, k) ==
    [i \in 0..(N - 1) |-> IF i < Len(fam) THEN fam[i + 1]
                          ELSE padding_universal_dfa(k)]

\* From<FWPM> for PreciseDPA<A, N>, lines 455-468: prc_dfas, or the panic of
\* assert!(dfas.len() <= N)
prc_dfas(f, N) ==
    IF \E c \in States(f.leading) : Len(f.pms[c]) > N
    THEN Panic("assertion failed: dfas.len() <= N")
    ELSE [ok |-> TRUE,
          dfas |-> [c \in States(f.leading) |->
                        pad_family(f.pms[c], N, f.leading.k)]]

InitBuild ==
    /\ IsFwpm(fwpm)
    /\ cong = NoMachine
    /\ dfas = <<>>
    /\ width = 0
    /\ pc = "fwpm"
    /\ q = NoState
    /\ prev = NoState
    /\ word = <<>>
    /\ colors = <<>>
    /\ err = ""
    /\ seen = {}
    /\ todo = {}
    /\ RefineIdle
    /\ CallIdle

\* build_precise_dpa_for up to the construction of the PreciseDPA: the
\* dispatch, From<FWPM>::from and the PreciseDPA::new it ends with
Build ==
    /\ pc = "fwpm"
    /\ LET b == build_precise_dpa_for(fwpm.complexity) IN
       IF ~b.ok
       THEN /\ pc' = "panicked"
            /\ err' = b.msg
            /\ UNCHANGED <<cong, dfas, width, q>>
       ELSE LET r == prc_dfas(fwpm, b.N) IN
            /\ width' = b.N
            /\ IF ~r.ok
               THEN /\ pc' = "panicked"
                    /\ err' = r.msg
                    /\ UNCHANGED <<cong, dfas, q>>
               ELSE /\ cong' = fwpm.leading
                    /\ dfas' = r.dfas
                    /\ LET new == PreciseDPA_new' IN
                       IF new.ok
                       THEN /\ pc' = "ready"
                            /\ q' = new.state
                            /\ err' = err
                       ELSE /\ pc' = "panicked"
                            /\ q' = q
                            /\ err' = new.msg
    /\ UNCHANGED <<fwpm, prev, word, colors, seen, todo, mvars, avars>>

NextBuild == Build

SpecBuild == InitBuild /\ [][NextBuild]_vars

C16_FamiliesPaddedToWidth ==
    (fwpm # NoFwpm /\ pc # "fwpm" /\ width > 0) =>
        IF \E c \in States(fwpm.leading) : Len(fwpm.pms[c]) > width
        THEN pc = "panicked" /\ dfas = <<>>
        ELSE /\ DOMAIN dfas = States(fwpm.leading)
             /\ \A c \in States(fwpm.leading) :
                   /\ DOMAIN dfas[c] = 0..(width - 1)
                   /\ \A i \in 0..(width - 1) :
                         dfas[c][i] = IF i < Len(fwpm.pms[c])
                                      THEN fwpm.pms[c][i + 1]
                                      ELSE padding_universal_dfa(NumSymbols)

\* a built automaton with a family that was padded above two DFAs of its own
C16_Witness ==
    /\ pc = "ready"
    /\ \E c \in States(fwpm.leading) :
          /\ Len(fwpm.pms[c]) = 2
          /\ fwpm.pms[c][1] # fwpm.pms[c][2]
          /\ Len(fwpm.pms[c]) < width


(***************************************************************************)
(* Partition refinement (minimization/partition_refinement.rs).            *)
(*                                                                         *)
(* An automaton is a deterministic transition system with an edge color    *)
(* ecolor[s][a] on every edge and a state color scolor[s] on every state.  *)
(* The Mealy refiner reads the edge colors, the Moore refiner the state    *)
(* colors.                                                                 *)
(***************************************************************************)
MaxStates == 3      \* states of the automata that are minimized
NumColors == 2      \* colors of the automata that are minimized

Void == 0

Machine(n, k, i, d, ec, sc) ==
    [size |-> n, k |-> k, initial |-> i, delta |-> d, ecolor |-> ec, scolor |-> sc]

Deltas(n, k) == [0..(n - 1) -> [0..(k - 1) -> 0..(n - 1)]]

\* the state colors of a Mealy input and the edge colors of a Moore input
\* are Void; renaming the colors changes nothing the refiners read, so the
\* first color of an input is color 0
EdgeColorings(n, k) ==
    {c \in [0..(n - 1) -> [0..(k - 1) -> 0..(NumColors - 1)]] : c[0][0] = 0}
StateColorings(n) ==
    {c \in [0..(n - 1) -> 0..(NumColors - 1)] : c[0] = 0}

IsMealyInput(m) ==
    \E n \in 1..MaxStates :
        \E d \in Deltas(n, NumSymbols) : \E ec \in EdgeColorings(n, NumSymbols) :
            m = Machine(n, NumSymbols, 0, d, ec, [s \in 0..(n - 1) |-> Void])

IsMooreInput(m) ==
    \E n \in 1..MaxStates :
        \E d \in Deltas(n, NumSymbols) : \E sc \in StateColorings(n) :
            m = Machine(n, NumSymbols, 0, d,
                        [s \in 0..(n - 1) |-> [a \in 0..(NumSymbols - 1) |-> Void]], sc)

\* mm.edge(q, sym) is Some(t)
has_edge(ts, s, a) == successor_index(ts, s, a) # None

\* queue.iter().position(|o| o == y), as a 1-based index, 0 when absent
queue_position(qu, y) ==
    LET P == {i \in 1..Len(qu) : qu[i] = y} IN IF P = {} THEN 0 ELSE Min(P)

\* Vec::remove(pos)
remove_at(qu, pos) == SubSeq(qu, 1, pos - 1) \o SubSeq(qu, pos + 1, Len(qu))

(***************************************************************************)
(* mealy_greatest_bisimulation, lines 34-44: the splitter map of (set,     *)
(* sym), color -> states whose sym-edge has that color and leads into set. *)
(* The map keeps insertion order; states are visited in ascending order.   *)
(***************************************************************************)
RECURSIVE mealy_splitter_from(_, _, _, _)
mealy_splitter_from(B, a, s, acc) ==
    IF s >= mm.size THEN acc
    ELSE IF has_edge(mm, s, a) /\ mm.delta[s][a] \in B
    THEN LET c == mm.ecolor[s][a]
             hit == {i \in 1..Len(acc) : acc[i].color = c}
         IN  IF hit = {}
             THEN mealy_splitter_from(B, a, s + 1, Append(acc, [color |-> c, x |-> {s}]))
             ELSE mealy_splitter_from(B, a, s + 1,
                                      [acc EXCEPT ![Min(hit)].x = @ \cup {s}])
    ELSE mealy_splitter_from(B, a, s + 1, acc)

\* mutant of mealy_splitter: the map entry of a color is overwritten, not
\* extended, so it keeps the last state only
mealy_splitter_overwrite(B, a) ==
    LET entries == mealy_splitter_from(B, a, 0, <<>>)
    IN  [i \in 1..Len(entries) |-> [sym |-> a, x |-> {Max(entries[i].x)}]]

mealy_splitter(B, a) ==
    LET entries == mealy_splitter_from(B, a, 0, <<>>)
    IN  [i \in 1..Len(entries) |-> [sym |-> a, x |-> entries[i].x]]

\* moore_greatest_bisimulation, lines 137-144: the states whose sym-edge
\* leads into the popped block
\* mutant of moore_splitter: the target is not tested for membership in the
\* popped block
moore_splitter_any_target(B, a) ==
    <<[sym |-> a, x |-> {s \in States(mm) : has_edge(mm, s, a)}]>>

moore_splitter(B, a) ==
    <<[sym |-> a,
       x |-> {s \in States(mm) : has_edge(mm, s, a) /\ mm.delta[s][a] \in B}]>>

splitter_of(B, a) ==
    IF variant = "mealy" THEN mealy_splitter(B, a) ELSE moore_splitter(B, a)

\* `for sym in mm.symbols()`: the splitters of the popped block in the order
\* in which the loops apply them (they depend on the block and on mm only)
RECURSIVE splitters_from(_, _)
splitters_from(B, a) ==
    IF a >= mm.k THEN <<>> ELSE splitter_of(B, a) \o splitters_from(B, a + 1)

(***************************************************************************)
(* Lines 46-69 and 146-168: one pass of `for y in &partition` for the      *)
(* splitter x.  A block that x properly splits is replaced by int and      *)
(* diff; in the queue the block is replaced by both parts when it is       *)
(* queued, otherwise the part that is not the larger one is pushed.        *)
(***************************************************************************)
\* mutant of queue_after_split: a split block that is not queued queues
\* nothing
queue_after_split_no_push(qu, y, int, diff) ==
    LET pos == queue_position(qu, y) IN
    IF pos # 0 THEN remove_at(qu, pos) \o <<int, diff>> ELSE qu

\* mutant of queue_after_split: of a split block that is not queued the
\* part with no fewer elements is pushed
queue_after_split_larger(qu, y, int, diff) ==
    LET pos == queue_position(qu, y) IN
    IF pos # 0
    THEN remove_at(qu, pos) \o <<int, diff>>
    ELSE Append(qu, IF Cardinality(int) <= Cardinality(diff) THEN diff ELSE int)

queue_after_split(qu, y, int, diff) ==
    LET pos == queue_position(qu, y) IN
    IF pos # 0
    THEN remove_at(qu, pos) \o <<int, diff>>
    ELSE Append(qu, IF Cardinality(int) <= Cardinality(diff) THEN int ELSE diff)

\* mutant of split_blocks: a split block is replaced by int and the whole
\* block, not by int and diff
RECURSIVE split_blocks_keep_block(_, _, _, _, _)
split_blocks_keep_block(x, part, i, new_partition, qu) ==
    IF i > Len(part) THEN [partition |-> new_partition, queue |-> qu]
    ELSE LET y == part[i] IN
         IF x \cap y = {} \/ y \ x = {}
         THEN split_blocks_keep_block(x, part, i + 1, Append(new_partition, y), qu)
         ELSE LET int == x \cap y
                  diff == y \ x
              IN  split_blocks_keep_block(x, part, i + 1, new_partition \o <<int, y>>,
                                          queue_after_split(qu, y, int, diff))

\* mutant of split_blocks: a block that is not split is put back on the
\* worklist
RECURSIVE split_blocks_requeue(_, _, _, _, _)
split_blocks_requeue(x, part, i, new_partition, qu) ==
    IF i > Len(part) THEN [partition |-> new_partition, queue |-> qu]
    ELSE LET y == part[i] IN
         IF x \cap y = {} \/ y \ x = {}
         THEN split_blocks_requeue(x, part, i + 1, Append(new_partition, y),
                                   IF queue_position(qu, y) # 0 THEN qu
                                   ELSE Append(qu, y))
         ELSE LET int == x \cap y
                  diff == y \ x
              IN  split_blocks_requeue(x, part, i + 1, new_partition \o <<int, diff>>,
                                       queue_after_split(qu, y, int, diff))

\* mutant of split_blocks: a block that is not split is merged into the
\* block before it
RECURSIVE split_blocks_merge(_, _, _, _, _)
split_blocks_merge(x, part, i, new_partition, qu) ==
    IF i > Len(part) THEN [partition |-> new_partition, queue |-> qu]
    ELSE LET y == part[i] IN
         IF x \cap y = {} \/ y \ x = {}
         THEN split_blocks_merge(x, part, i + 1,
                  IF new_partition = <<>> THEN <<y>>
                  ELSE [new_partition EXCEPT ![Len(new_partition)] = @ \cup y],
                  qu)
         ELSE LET int == x \cap y
                  diff == y \ x
              IN  split_blocks_merge(x, part, i + 1, new_partition \o <<int, diff>>,
                                     queue_after_split(qu, y, int, diff))

RECURSIVE split_blocks(_, _, _, _, _)
split_blocks(x, part, i, new_partition, qu) ==
    IF i > Len(part) THEN [partition |-> new_partition, queue |-> qu]
    ELSE LET y == part[i] IN
         IF x \cap y = {} \/ y \ x = {}
         THEN split_blocks(x, part, i + 1, Append(new_partition, y), qu)
         ELSE LET int == x \cap y
                  diff == y \ x
              IN  split_blocks(x, part, i + 1, new_partition \o <<int, diff>>,
                               queue_after_split(qu, y, int, diff))

\* moore_greatest_bisimulation, lines 128-133: one block per state color, in
\* the order in which the colors first occur
RECURSIVE presplit_from(_, _)
presplit_from(s, acc) ==
    IF s >= mm.size THEN acc
    ELSE LET c == mm.scolor[s]
             hit == {i \in 1..Len(acc) : acc[i].color = c}
         IN  IF hit = {}
             THEN presplit_from(s + 1, Append(acc, [color |-> c, x |-> {s}]))
             ELSE presplit_from(s + 1, [acc EXCEPT ![Min(hit)].x = @ \cup {s}])

presplit ==
    LET entries == presplit_from(0, <<>>)
    IN  [i \in 1..Len(entries) |-> entries[i].x]

\* mutant of initial_partition: the Moore refiner starts from one block too
initial_partition_unsplit == <<States(mm)>>

\* lines 28-30 and 128-133
initial_partition ==
    IF variant = "mealy" THEN <<States(mm)>> ELSE presplit

(***************************************************************************)
(* The quotient of mm by a partition and its collection (lines 101-107     *)
(* and 200-213).  The states of the result are the blocks, numbered in the *)
(* order of the partition; a block has an a-edge to the block of the       *)
(* a-successor of its states, and the color vectors of an edge and of a    *)
(* state are reduced to their first entry c[0], the color at the least     *)
(* state of the block.                                                     *)
(***************************************************************************)
block_of(part, s) == Min({i \in 1..Len(part) : s \in part[i]}) - 1

first_with_edge(block, a) ==
    LET E == {s \in block : has_edge(mm, s, a)} IN IF E = {} THEN None ELSE Min(E)

quotient(part) ==
    [size |-> Len(part), k |-> mm.k,
     initial |-> block_of(part, mm.initial),
     delta |-> [b \in 0..(Len(part) - 1) |-> [a \in Symbols(mm) |->
                  LET r == first_with_edge(part[b + 1], a)
                  IN  IF r = None THEN None ELSE block_of(part, mm.delta[r][a])]],
     ecolor |-> [b \in 0..(Len(part) - 1) |-> [a \in Symbols(mm) |->
                  LET r == first_with_edge(part[b + 1], a)
                  IN  IF r = None THEN 0 ELSE mm.ecolor[r][a]]],
     scolor |-> [b \in 0..(Len(part) - 1) |-> mm.scolor[Min(part[b + 1])]]]

(***************************************************************************)
(* SpecRefine: mealy_partition_refinement / moore_partition_refinement on  *)
(* an input automaton, one action per loop step.                           *)
(***************************************************************************)
PreciseIdle ==
    /\ fwpm = NoFwpm
    /\ cong = NoMachine
    /\ dfas = <<>>
    /\ width = 0
    /\ pc = "idle"
    /\ q = NoState
    /\ prev = NoState
    /\ word = <<>>
    /\ colors = <<>>
    /\ err = ""
    /\ seen = {}
    /\ todo = {}

InitRefine ==
    /\ PreciseIdle
    /\ CallIdle
    /\ \/ variant = "mealy" /\ IsMealyInput(mm)
       \/ variant = "moore" /\ IsMooreInput(mm)
    /\ partition = <<>>
    /\ queue = <<>>
    /\ rpc = "start"
    /\ set = {}
    /\ pending = <<>>
    /\ out = NoMachine
    /\ round = 0

\* lines 28-30 / 128-133: the initial partition and worklist
Begin ==
    /\ rpc = "start"
    /\ partition' = initial_partition
    /\ queue' = initial_partition
    /\ rpc' = "loop"
    /\ UNCHANGED <<pvars, xvars, avars, mm, variant, set, pending, out, round>>

\* `while let Some(set) = queue.pop()`
Pop ==
    /\ rpc = "loop"
    /\ queue # <<>>
    /\ set' = queue[Len(queue)]
    /\ queue' = SubSeq(queue, 1, Len(queue) - 1)
    /\ pending' = splitters_from(queue[Len(queue)], 0)
    /\ rpc' = IF splitters_from(queue[Len(queue)], 0) = <<>> THEN "loop" ELSE "split"
    /\ UNCHANGED <<pvars, xvars, avars, mm, variant, partition, out, round>>

\* the body of `for sym` / `for (_c, x) in splitter` for the next splitter:
\* the pass over the partition; after the last one the while loop goes on
Refine ==
    /\ rpc = "split"
    /\ LET r == split_blocks(Head(pending).x, partition, 1, <<>>, queue) IN
          /\ partition' = r.partition
          /\ queue' = r.queue
    /\ pending' = Tail(pending)
    /\ rpc' = IF Tail(pending) = <<>> THEN "loop" ELSE "split"
    /\ UNCHANGED <<pvars, xvars, avars, mm, variant, set, out, round>>

\* the worklist is empty: the partition is returned and the quotient built
Finish ==
    /\ rpc = "loop"
    /\ queue = <<>>
    /\ rpc' = "done"
    /\ out' = quotient(partition)
    /\ UNCHANGED <<pvars, xvars, avars, mm, variant, partition, queue, set, pending, round>>

NextRefine ==
    \/ Begin
    \/ Pop
    \/ Refine
    \/ Finish

SpecRefine == InitRefine /\ [][NextRefine]_vars

(***************************************************************************)
(* Claims about the partition refinement.                                  *)
(***************************************************************************)
Refined(v) == rpc = "done" /\ variant = v

SameBlock(s, t) == \E i \in 1..Len(partition) : s \in partition[i] /\ t \in partition[i]

\* the words of length lo..hi over the alphabet of mm
WordsOf(lo, hi) == UNION {[1..l -> Symbols(mm)] : l \in lo..hi}

\* the edge colors along the run of w from s
RECURSIVE mealy_output(_, _, _)
mealy_output(m, s, w) ==
    IF w = <<>> THEN <<>>
    ELSE <<m.ecolor[s][Head(w)]>> \o mealy_output(m, m.delta[s][Head(w)], Tail(w))

\* the color of the state the run of w from s ends in
moore_output(m, s, w) == m.scolor[RunTs(m, s, w)]

\* C7: in the partition returned by mealy_greatest_bisimulation two states of
\* one block have, on every symbol, edges of equal color that lead into the
\* same block.
C7_MealyBlocksAreStable ==
    Refined("mealy") =>
        \A s \in States(mm) : \A t \in States(mm) :
            SameBlock(s, t) =>
                \A a \in Symbols(mm) :
                    /\ mm.ecolor[s][a] = mm.ecolor[t][a]
                    /\ SameBlock(mm.delta[s][a], mm.delta[t][a])

\* a returned partition with a block of two states whose edges on some symbol
\* lead to different states, and with more than one block
C7_Witness ==
    /\ Refined("mealy")
    /\ Len(partition) > 1
    /\ \E s \in States(mm) : \E t \in States(mm) : \E a \in Symbols(mm) :
          s # t /\ SameBlock(s, t) /\ mm.delta[s][a] # mm.delta[t][a]

\* no word of the lengths that matter for mm tells s from t by edge colors
MealyEquivalent(s, t) ==
    \A w \in WordsOf(1, mm.size) : mealy_output(mm, s, w) = mealy_output(mm, t, w)

\* C8: two states are in the same block of the Mealy partition if and only if
\* every non-empty word produces the same color sequence from both.
C8_MealyPartitionIsCoarsest ==
    Refined("mealy") =>
        \A s \in States(mm) : \A t \in States(mm) :
            SameBlock(s, t) <=> MealyEquivalent(s, t)

\* a returned partition that merges two states whose edges differ in their
\* targets and separates two others
C8_Witness ==
    /\ Refined("mealy")
    /\ \E s \in States(mm) : \E t \in States(mm) :
          s # t /\ SameBlock(s, t) /\ mm.delta[s] # mm.delta[t]
    /\ \E s \in States(mm) : \E t \in States(mm) : ~SameBlock(s, t)

MooreEquivalent(s, t) ==
    \A w \in WordsOf(0, mm.size) : moore_output(mm, s, w) = moore_output(mm, t, w)

\* C9: two states are in the same block of the Moore partition if and only if
\* for every word, the empty one included, the states reached from them carry
\* the same state color.
C9_MoorePartitionIsCoarsest ==
    Refined("moore") =>
        \A s \in States(mm) : \A t \in States(mm) :
            SameBlock(s, t) <=> MooreEquivalent(s, t)

\* a returned partition that merges two states whose edges differ in their
\* targets and separates two others
C9_Witness ==
    /\ Refined("moore")
    /\ \E s \in States(mm) : \E t \in States(mm) :
          s # t /\ SameBlock(s, t) /\ mm.delta[s] # mm.delta[t]
    /\ \E s \in States(mm) : \E t \in States(mm) : ~SameBlock(s, t)

MaxOrderStates == 4

OrderDeltas(n, k) ==
    {[s \in 0..(n - 1) |-> [a \in 0..(k - 1) |->
        IF a = 0 THEN f[s] ELSE IF g[s][a] = 1 THEN (s + 1) % n ELSE s]] :
     f \in [0..(n - 1) -> 0..(n - 1)], g \in [0..(n - 1) -> [1..(k - 1) -> 0..1]]}

OrderEdgeColorings(n, k) ==
    {[s \in 0..(n - 1) |-> [a \in 0..(k - 1) |-> IF a = 0 THEN c[s] ELSE 0]] :
     c \in StateColorings(n)}

IsOrderMealyInput(m) ==
    \E d \in OrderDeltas(MaxOrderStates, NumSymbols) :
        \E ec \in OrderEdgeColorings(MaxOrderStates, NumSymbols) :
            m = Machine(MaxOrderStates, NumSymbols, 0, d, ec,
                        [s \in 0..(MaxOrderStates - 1) |-> Void])

IsOrderMooreInput(m) ==
    \E d \in OrderDeltas(MaxOrderStates, NumSymbols) :
        \E sc \in StateColorings(MaxOrderStates) :
            m = Machine(MaxOrderStates, NumSymbols, 0, d,
                        [s \in 0..(MaxOrderStates - 1) |->
                            [a \in 0..(NumSymbols - 1) |-> Void]], sc)

InitOrder ==
    /\ PreciseIdle
    /\ CallIdle
    /\ \/ variant = "mealy" /\ (IsMealyInput(mm) \/ IsOrderMealyInput(mm))
       \/ variant = "moore" /\ (IsMooreInput(mm) \/ IsOrderMooreInput(mm))
    /\ partition = <<>>
    /\ queue = <<>>
    /\ rpc = "start"
    /\ set = {}
    /\ pending = <<>>
    /\ out = NoMachine
    /\ round = 0

PopAt(i) ==
    /\ rpc = "loop"
    /\ i \in 1..Len(queue)
    /\ set' = queue[i]
    /\ queue' = remove_at(queue, i)
    /\ pending' = splitters_from(queue[i], 0)
    /\ rpc' = IF splitters_from(queue[i], 0) = <<>> THEN "loop" ELSE "split"
    /\ UNCHANGED <<pvars, xvars, avars, mm, variant, partition, out, round>>

NextOrder ==
    \/ Begin
    \/ \E i \in 1..Len(queue) : PopAt(i)
    \/ Refine
    \/ Finish

SpecOrder == InitOrder /\ [][NextOrder]_vars

(***************************************************************************)
(* mealy_greatest_bisimulation / moore_greatest_bisimulation as functions: *)
(* the partition the loops return when every pop takes the last block.     *)
(***************************************************************************)
RECURSIVE apply_splitters(_, _, _)
apply_splitters(sp, part, qu) ==
    IF sp = <<>> THEN [partition |-> part, queue |-> qu]
    ELSE LET r == split_blocks(Head(sp).x, part, 1, <<>>, qu)
         IN  apply_splitters(Tail(sp), r.partition, r.queue)

RECURSIVE greatest_bisimulation_from(_, _)
greatest_bisimulation_from(part, qu) ==
    IF qu = <<>> THEN part
    ELSE LET r == apply_splitters(splitters_from(qu[Len(qu)], 0), part,
                                  SubSeq(qu, 1, Len(qu) - 1))
         IN  greatest_bisimulation_from(r.partition, r.queue)

greatest_bisimulation == greatest_bisimulation_from(initial_partition, initial_partition)

Blocks(part) == {part[i] : i \in 1..Len(part)}

\* C11: whichever queued block each iteration pops, the refiner ends with the
\* set of blocks that the code's own order (pop the last block) ends with.
C11_OrderDoesNotChangeBlocks ==
    rpc = "done" => Blocks(partition) = Blocks(greatest_bisimulation)

\* a run that popped in another order than the code: it ends with the blocks
\* of the code's run, listed in another sequence
C11_Witness ==
    /\ rpc = "done"
    /\ mm.size = MaxOrderStates
    /\ Len(partition) \in 3..(mm.size - 1)
    /\ partition # greatest_bisimulation


(***************************************************************************)
(* SpecIdem: a minimization whose output is minimized once more, as in     *)
(* mm.minimize().minimize().  Again feeds the automaton built by Finish    *)
(* back as the input of a second run of the same refiner.                  *)
(***************************************************************************)
Again ==
    /\ rpc = "done"
    /\ round = 0
    /\ mm' = out
    /\ round' = round + 1
    /\ rpc' = "start"
    /\ partition' = <<>>
    /\ queue' = <<>>
    /\ set' = {}
    /\ pending' = <<>>
    /\ out' = NoMachine
    /\ UNCHANGED <<pvars, xvars, avars, variant>>

NextIdem ==
    \/ Begin
    \/ Pop
    \/ Refine
    \/ Finish
    \/ Again

SpecIdem == InitRefine /\ [][NextIdem]_vars

\* no two different states of mm are equivalent
IsMinimal ==
    \A s \in States(mm) : \A t \in States(mm) :
        s # t => IF variant = "mealy" THEN ~MealyEquivalent(s, t)
                                      ELSE ~MooreEquivalent(s, t)

\* C12: on an automaton that is already minimal, and so on the output of a
\* previous minimization, the refiner returns a partition whose blocks hold
\* exactly one state each.
C12_MinimalInputKeepsSingletons ==
    (rpc = "done" /\ (round = 1 \/ IsMinimal)) =>
        \A i \in 1..Len(partition) : Cardinality(partition[i]) = 1

\* the second minimization of an automaton with several states has returned
C12_Witness ==
    /\ rpc = "done"
    /\ round = 1
    /\ mm.size > 1
    /\ Len(partition) = mm.size


\* the blocks of part are non-empty, pairwise disjoint and cover S
IsPartitionOf(part, S) ==
    /\ \A i \in 1..Len(part) : part[i] # {}
    /\ \A i \in 1..Len(part) : \A j \in 1..Len(part) :
          i # j => part[i] \cap part[j] = {}
    /\ UNION {part[i] : i \in 1..Len(part)} = S

\* C13: from the initial partition on, at every iteration of either loop and
\* in the returned result, the candidate partition is made of non-empty,
\* pairwise disjoint blocks whose union is the set of states of the input.
C13_PartitionCoversStates ==
    rpc \in {"loop", "split", "done"} => IsPartitionOf(partition, States(mm))

\* inside the loop, after a split and with splitters still to apply
C13_Witness ==
    /\ rpc = "split"
    /\ Len(partition) > 1
    /\ Len(partition) < mm.size
    /\ queue # <<>>


(***************************************************************************)
(* SpecCollect: the quotient collector as a function of an automaton and   *)
(* a partition of its states.  The partition is any partition, given by    *)
(* the block index of every state; Finish builds the quotient from it as   *)
(* lines 101-107 and 200-213 do.                                           *)
(***************************************************************************)
\* the blocks of the partition that puts state s into block f[s], in the
\* order of their indices
RECURSIVE blocks_from(_, _, _)
blocks_from(f, S, i) ==
    IF i > Max({f[s] : s \in S}) THEN <<>>
    ELSE LET b == {s \in S : f[s] = i}
         IN  (IF b = {} THEN <<>> ELSE <<b>>) \o blocks_from(f, S, i + 1)

InitCollect ==
    /\ PreciseIdle
    /\ CallIdle
    /\ \/ variant = "mealy" /\ IsMealyInput(mm)
       \/ variant = "moore" /\ IsMooreInput(mm)
    /\ \E f \in [States(mm) -> States(mm)] : partition = blocks_from(f, States(mm), 0)
    /\ queue = <<>>
    /\ rpc = "loop"
    /\ set = {}
    /\ pending = <<>>
    /\ out = NoMachine
    /\ round = 0

NextCollect == Finish

SpecCollect == InitCollect /\ [][NextCollect]_vars

\* two states of one block differ in the color the collector reads: the
\* color of an edge (Mealy) or of the state (Moore)
BlockDisagrees ==
    \E i \in 1..Len(partition) : \E s \in partition[i] : \E t \in partition[i] :
        IF variant = "mealy"
        THEN \E a \in Symbols(mm) : mm.ecolor[s][a] # mm.ecolor[t][a]
        ELSE mm.scolor[s] # mm.scolor[t]

Ts(ids, k, i, d, ec, sc) ==
    [ids |-> ids, k |-> k, initial |-> i, delta |-> d, ecolor |-> ec, scolor |-> sc]

\* a DTS or an automaton seen through the TransitionSystem trait
as_ts(m) ==
    Ts([i \in 1..m.size |-> i - 1], m.k, m.initial, m.delta, m.ecolor, m.scolor)

state_indices(t) == {t.ids[i] : i \in 1..Len(t.ids)}

with_initial(t, i) == [t EXCEPT !.initial = i]

\* lines 50-54: map.insert(q, out.add_state((q, c))), add_state handing out
\* the indices 0, 1, 2, .. in the order of the calls
collect_map(t) ==
    [s \in state_indices(t) |-> Min({i \in 1..Len(t.ids) : t.ids[i] = s}) - 1]

\* mutant of collect_dts_preserving: the target of an edge is not renumbered
collect_dts_preserving_old_target(t) ==
    LET n == Len(t.ids) IN
    [size |-> n, k |-> t.k, initial |-> None,
     delta |-> [i \in 0..(n - 1) |-> [a \in 0..(t.k - 1) |-> t.delta[t.ids[i + 1]][a]]],
     ecolor |-> [i \in 0..(n - 1) |-> [a \in 0..(t.k - 1) |-> t.ecolor[t.ids[i + 1]][a]]],
     scolor |-> [i \in 0..(n - 1) |-> <<t.ids[i + 1], t.scolor[t.ids[i + 1]]>>]]

\* lines 46-70: the state with new index i is the i-th state of t and is
\* colored (old index, color); every edge of t is added between the mapped
\* source and the mapped target with its expression and color
collect_dts_preserving(t) ==
    LET n == Len(t.ids)
        map == collect_map(t)
    IN  [size |-> n, k |-> t.k, initial |-> None,
         delta |-> [i \in 0..(n - 1) |-> [a \in 0..(t.k - 1) |->
                      LET e == t.delta[t.ids[i + 1]][a]
                      IN  IF e = None THEN None ELSE map[e]]],
         ecolor |-> [i \in 0..(n - 1) |-> [a \in 0..(t.k - 1) |->
                      t.ecolor[t.ids[i + 1]][a]]],
         scolor |-> [i \in 0..(n - 1) |-> <<t.ids[i + 1], t.scolor[t.ids[i + 1]]>>]]

\* the state colors (old index, color) reduced to the color
unzip_state_color(p) ==
    [p EXCEPT !.scolor = [i \in 0..(p.size - 1) |-> p.scolor[i][2]]]

\* lines 33-42: the first new index whose state carries the old index
\* old_initial, None when find_map finds none
new_initial_of(preserving, old_initial) ==
    LET hit == {i \in 0..(preserving.size - 1) : preserving.scolor[i][1] = old_initial}
    IN  IF hit = {} THEN None ELSE Min(hit)

\* mutant of collect_dts_and_initial: the collected system starts in its
\* first state
collect_dts_and_initial_first_state(t) ==
    [unzip_state_color(collect_dts_preserving(t)) EXCEPT !.initial = 0]

\* lines 23-45; a result with initial = None is the panic of
\* .expect("old initial state did not exist")
collect_dts_and_initial(t) ==
    LET old_initial == t.initial
        preserving == collect_dts_preserving(t)
    IN  [unzip_state_color(preserving) EXCEPT
            !.initial = new_initial_of(preserving, old_initial)]

erase_edge_colors(t) ==
    [t EXCEPT !.ecolor = [s \in DOMAIN t.ecolor |-> [a \in DOMAIN t.ecolor[s] |-> Void]]]

erase_state_colors(t) ==
    [t EXCEPT !.scolor = [s \in DOMAIN t.scolor |-> Void]]

\* lines 105-111: MealyMachine::from_parts(ts, initial)
collect_mealy(t) == collect_dts_and_initial(t)

\* lines 98-104
collect_moore(t) == collect_dts_and_initial(erase_edge_colors(t))

\* lines 195-202: with_initial(state).into_dts_and_initial(), the edge
\* colors mapped to Void
into_moore_with_initial(t, s) ==
    collect_dts_and_initial(erase_edge_colors(with_initial(t, s)))

(***************************************************************************)
(* SpecMinimize: mealy_partition_refinement and moore_partition_refinement *)
(* as whole calls on an automaton with any initial state: the greatest     *)
(* bisimulation, its quotient, and the collection of the quotient.  The    *)
(* states of the quotient are the blocks, indexed in the order of the      *)
(* partition.                                                              *)
(***************************************************************************)
IsPointedMealyInput(m) ==
    \E n \in 1..MaxStates : \E i \in 0..(n - 1) :
        \E d \in Deltas(n, NumSymbols) : \E ec \in EdgeColorings(n, NumSymbols) :
            m = Machine(n, NumSymbols, i, d, ec, [s \in 0..(n - 1) |-> Void])

IsPointedMooreInput(m) ==
    \E n \in 1..MaxStates : \E i \in 0..(n - 1) :
        \E d \in Deltas(n, NumSymbols) : \E sc \in StateColorings(n) :
            m = Machine(n, NumSymbols, i, d,
                        [s \in 0..(n - 1) |-> [a \in 0..(NumSymbols - 1) |-> Void]], sc)

\* mm.quotient(partition) with the color vectors reduced to c[0]
quotient_ts(part) == as_ts(quotient(part))

InitMinimize ==
    /\ PreciseIdle
    /\ CallIdle
    /\ \/ variant = "mealy" /\ IsPointedMealyInput(mm)
       \/ variant = "moore" /\ IsPointedMooreInput(mm)
    /\ partition = <<>>
    /\ queue = <<>>
    /\ rpc = "start"
    /\ set = {}
    /\ pending = <<>>
    /\ out = NoMachine
    /\ round = 0

\* lines 83-113
mealy_partition_refinement ==
    /\ rpc = "start"
    /\ variant = "mealy"
    /\ partition' = greatest_bisimulation
    /\ out' = collect_mealy(quotient_ts(greatest_bisimulation))
    /\ rpc' = "done"
    /\ UNCHANGED <<pvars, xvars, avars, mm, variant, queue, set, pending, round>>

\* lines 184-214
moore_partition_refinement ==
    /\ rpc = "start"
    /\ variant = "moore"
    /\ partition' = greatest_bisimulation
    /\ LET c == collect_dts_and_initial(erase_edge_colors(quotient_ts(greatest_bisimulation)))
       IN  out' = into_moore_with_initial(as_ts(c), c.initial)
    /\ rpc' = "done"
    /\ UNCHANGED <<pvars, xvars, avars, mm, variant, queue, set, pending, round>>

NextMinimize ==
    \/ mealy_partition_refinement
    \/ moore_partition_refinement

SpecMinimize == InitMinimize /\ [][NextMinimize]_vars

\* the index that the state with new index i had in t before t was collected
old_index(t, i) == collect_dts_preserving(t).scolor[i][1]

\* the block of the partition that became state i of the minimized
\* automaton: the Mealy quotient is collected once, the Moore quotient is
\* collected and then collected again by into_moore_with_initial
block_behind(i) ==
    LET qt == quotient_ts(partition) IN
    IF variant = "mealy" THEN partition[old_index(qt, i) + 1]
    ELSE LET c == collect_dts_and_initial(erase_edge_colors(qt))
         IN  partition[old_index(qt, old_index(as_ts(c), i)) + 1]

\* C21: the initial state of the minimized automaton is the state that the
\* block containing the initial state of the input became, the renumbering
\* of the collection included.
C21_InitialBlockIsInitial ==
    rpc = "done" => mm.initial \in block_behind(out.initial)

\* a minimization with several blocks whose initial state is not in the
\* first block of the partition
C21_Witness ==
    /\ rpc = "done"
    /\ Len(partition) > 1
    /\ mm.initial \notin partition[1]
    /\ out.initial # 0


\* the blocks behind the states 0, 1, .. of the minimized automaton
RECURSIVE blocks_behind_from(_)
blocks_behind_from(i) ==
    IF i >= out.size THEN <<>> ELSE <<block_behind(i)>> \o blocks_behind_from(i + 1)

\* the edges (P, s, c, Q) that the edges of the input induce on the blocks
\* B[1], B[2], .. behind the states of the minimized automaton
induced_edges(B) ==
    {e \in (0..(Len(B) - 1)) \X Symbols(mm) \X (0..(NumColors - 1)) \X (0..(Len(B) - 1)) :
        \E s \in B[e[1] + 1] :
            /\ has_edge(mm, s, e[2])
            /\ mm.delta[s][e[2]] \in B[e[4] + 1]
            /\ mm.ecolor[s][e[2]] = e[3]}

\* the edges of the minimized automaton
edges_of_out ==
    {<<x[1], x[2], out.ecolor[x[1]][x[2]], out.delta[x[1]][x[2]]>> :
        x \in {y \in (0..(out.size - 1)) \X Symbols(out) : has_edge(out, y[1], y[2])}}

\* C22: the minimized automaton has an edge from block P to block Q on
\* symbol s with color c if and only if some state of P has an s-edge with
\* color c to some state of Q, and for the partition of the refiner these
\* are exactly one edge per block and symbol on which a state of the block
\* has an edge.
C22_QuotientEdgesAreInduced ==
    rpc = "done" =>
        LET B == blocks_behind_from(0)
            E == induced_edges(B)
        IN  /\ edges_of_out = E
            /\ \A P \in 0..(out.size - 1) : \A a \in Symbols(mm) :
                  (\E s \in B[P + 1] : has_edge(mm, s, a)) =>
                      Cardinality({e \in E : e[1] = P /\ e[2] = a}) = 1

\* a minimized automaton with an edge of color 1 that leaves a block of two
\* states with different successors for another block
C22_Witness ==
    /\ rpc = "done"
    /\ \E e \in edges_of_out :
          /\ e[1] # e[4]
          /\ e[3] = 1
          /\ \E s \in block_behind(e[1]) : \E t \in block_behind(e[1]) :
                s # t /\ mm.delta[s] # mm.delta[t]


(***************************************************************************)
(* SpecRepr: collect_dts_preserving as a function of a transition system   *)
(* whose state indices are any MaxStates or fewer of 0..MaxIndex, as the   *)
(* indices of a restricted system are (trim_collect_pointed, lines 74-88). *)
(***************************************************************************)
MaxIndex == 3       \* largest state index of a transition system that is collected

RECURSIVE ascending(_)
ascending(S) == IF S = {} THEN <<>> ELSE <<Min(S)>> \o ascending(S \ {Min(S)})

InitRepr ==
    /\ PreciseIdle
    /\ RefineIdle
    /\ \E S \in SUBSET (0..MaxIndex) :
          /\ Cardinality(S) \in 1..MaxStates
          /\ \E d \in [S -> [0..(NumSymbols - 1) -> S]] :
                \E ec \in [S -> [0..(NumSymbols - 1) -> 0..(NumColors - 1)]] :
                    input = Ts(ascending(S), NumSymbols, None, d, ec, [s \in S |-> Void])
    /\ other = None
    /\ arg = None
    /\ result = None
    /\ op = "call"

CollectDtsPreserving ==
    /\ op = "call"
    /\ result' = collect_dts_preserving(input)
    /\ op' = "done"
    /\ UNCHANGED <<pvars, xvars, mvars, input, other, arg>>

NextRepr == CollectDtsPreserving

SpecRepr == InitRepr /\ [][NextRepr]_vars

\* C23: collecting a transition system with k states yields states indexed
\* exactly 0..k-1, one for every state of the source, and every edge of the
\* source as an edge with the same symbol and color between the new indices
\* of its source and target, and no other edge.
C23_CollectRenumbersDensely ==
    op = "done" =>
        LET n == Len(input.ids)
            old == [i \in 0..(result.size - 1) |-> result.scolor[i][1]]
        IN  /\ result.size = n
            /\ DOMAIN result.delta = 0..(n - 1)
            /\ DOMAIN result.scolor = 0..(n - 1)
            /\ {old[i] : i \in 0..(n - 1)} = state_indices(input)
            /\ \A i \in 0..(n - 1) : \A a \in 0..(input.k - 1) :
                  LET e == input.delta[old[i]][a]
                      f == result.delta[i][a]
                  IN  IF e = None THEN f = None
                      ELSE /\ f \in 0..(n - 1)
                           /\ old[f] = e
                           /\ result.ecolor[i][a] = input.ecolor[old[i]][a]

\* a collected system whose source had indices with gaps and an edge of
\* color 1 whose target was renumbered
C23_Witness ==
    /\ op = "done"
    /\ result.size = MaxStates
    /\ \E i \in 0..(result.size - 1) : \E a \in 0..(input.k - 1) :
          /\ result.scolor[i][1] # i
          /\ result.ecolor[i][a] = 1
          /\ result.delta[i][a] # input.delta[result.scolor[i][1]][a]
          /\ result.delta[i][a] # i


(***************************************************************************)
(* DFA operations (automaton/reachability.rs).  A DFA is an automaton      *)
(* whose state colors are booleans, TRUE on the accepting states.  The     *)
(* state ProductIndex(l, r) of a product is written l * |right| + r.       *)
(***************************************************************************)
MaxDfaStates == 2   \* states of the DFAs that are compared

IsDfa(m) ==
    \E n \in 1..MaxDfaStates : \E i \in 0..(n - 1) :
        \E d \in Deltas(n, NumSymbols) : \E acc \in [0..(n - 1) -> BOOLEAN] :
            m = Machine(n, NumSymbols, i, d,
                        [s \in 0..(n - 1) |-> [a \in 0..(NumSymbols - 1) |-> Void]], acc)

ProductIndex(l, r, right) == l * right.size + r

\* the product of two automata: the pairs of their states, left index
\* first, with an edge where both have one and the pair of the colors on
\* every state
ts_product(left, right) ==
    LET pairs == (0..(left.size - 1)) \X (0..(right.size - 1))
        idx(p) == ProductIndex(p[1], p[2], right)
        P == {idx(p) : p \in pairs}
        l(i) == i \div right.size
        r(i) == i % right.size
    IN  Ts(ascending(P), left.k, None,
           [i \in P |-> [a \in 0..(left.k - 1) |->
               IF has_edge(left, l(i), a) /\ has_edge(right, r(i), a)
               THEN ProductIndex(left.delta[l(i)][a], right.delta[r(i)][a], right)
               ELSE None]],
           [i \in P |-> [a \in 0..(left.k - 1) |-> Void]],
           [i \in P |-> <<left.scolor[l(i)], right.scolor[r(i)]>>])

\* lines 90-96: erase_edge_colors().collect_dts_and_initial(), from_parts
collect_dfa(t) == collect_dts_and_initial(erase_edge_colors(t))

\* lines 154-160
negation(d) ==
    LET t == as_ts(d)
    IN  collect_dfa(with_initial([t EXCEPT !.scolor = [s \in DOMAIN t.scolor |-> ~t.scolor[s]]],
                                 d.initial))

\* lines 139-151
intersection(d, e) ==
    LET other_initial == e.initial
        t == ts_product(d, e)
    IN  collect_dfa(with_initial(
            [t EXCEPT !.scolor = [s \in DOMAIN t.scolor |-> t.scolor[s][1] /\ t.scolor[s][2]]],
            ProductIndex(d.initial, other_initial, e)))

\* the words of length 0..n over the alphabet of d
WordsUpTo(d, n) == UNION {[1..l -> Symbols(d)] : l \in 0..n}

\* the DFA accepts w: the state that w reaches is colored true
accepts(d, w) == d.scolor[RunTs(d, d.initial, w)]

\* lines 103-114: the first minimal representative that reaches an
\* accepting state; every reachable state is reached by a word shorter than
\* the number of states
give_word(d) ==
    LET W == {w \in WordsUpTo(d, d.size - 1) : accepts(d, w)}
    IN  IF W = {} THEN [some |-> FALSE, word |-> <<>>]
        ELSE [some |-> TRUE,
              word |-> CHOOSE w \in W : \A v \in W : Len(w) <= Len(v)]

\* lines 117-119
is_empty_language(d) == ~give_word(d).some

\* lines 94-99
equivalent(d, e) == is_empty_language(intersection(negation(d), e))

(***************************************************************************)
(* SpecEquiv: DFA::equivalent called on two complete DFAs.                 *)
(***************************************************************************)
InitEquiv ==
    /\ PreciseIdle
    /\ RefineIdle
    /\ IsDfa(input)
    /\ IsDfa(other)
    /\ arg = None
    /\ result = None
    /\ op = "call"

Equivalent ==
    /\ op = "call"
    /\ result' = equivalent(input, other)
    /\ op' = "done"
    /\ UNCHANGED <<pvars, xvars, mvars, input, other, arg>>

NextEquiv == Equivalent

SpecEquiv == InitEquiv /\ [][NextEquiv]_vars

\* two DFAs accept the same words; words no longer than the product of the
\* numbers of states tell any two DFAs with different languages apart
SameLanguage(d, e) ==
    \A w \in WordsUpTo(d, d.size * e.size) : accepts(d, w) <=> accepts(e, w)

\* C24: DFA::equivalent(other) returns true if and only if self and other
\* accept the same language.
C24_EquivalentIffSameLanguage ==
    op = "done" => (result <=> SameLanguage(input, other))


\* the blocks of part that the splitter x properly splits
properly_split(x, part) == {y \in Blocks(part) : x \cap y # {} /\ y \ x # {}}

\* the part of y that is queued when y is split and was not queued
smaller_part(x, y) ==
    IF Cardinality(x \cap y) <= Cardinality(y \ x) THEN x \cap y ELSE y \ x

\* C26: a pass of a splitter x replaces every block y that x properly
\* splits by x \cap y and y \ x; in the worklist a queued y is replaced by
\* both parts, for a y that is not queued exactly the part with no more
\* elements than the other (x \cap y on ties) is added; all other blocks
\* stay in the partition and in the worklist, and nothing else is queued.
C26_WorklistRule ==
    [][rpc = "split" =>
        LET x == Head(pending).x
            split == properly_split(x, partition)
            queued == split \cap Blocks(queue)
        IN  /\ Blocks(partition') =
                  (Blocks(partition) \ split)
                      \cup {x \cap y : y \in split} \cup {y \ x : y \in split}
            /\ Len(partition') = Len(partition) + Cardinality(split)
            /\ Blocks(queue') =
                  (Blocks(queue) \ split)
                      \cup {x \cap y : y \in queued} \cup {y \ x : y \in queued}
                      \cup {smaller_part(x, y) : y \in split \ queued}
            /\ Len(queue') = Len(queue) + Cardinality(split)]_vars

\* the Moore refiner popped a block of one state and its splitter split the
\* queued block of the other two states: the worklist holds both parts
C26_Witness ==
    /\ rpc \in {"split", "loop"}
    /\ variant = "moore"
    /\ Cardinality(set) = 1
    /\ Len(partition) = 3
    /\ Len(queue) = 2
    /\ Blocks(queue) = Blocks(partition) \ {set}


\* the refiner has built its initial partition and worklist and has not yet
\* popped a block
Started == rpc = "loop" /\ set = {}

\* the states of mm with state color c
states_with_color(c) == {s \in States(mm) : mm.scolor[s] = c}

\* C27: the Mealy refiner starts with the block of all states as its only
\* block and only worklist entry; the Moore refiner starts with one block
\* per state color that occurs, every block queued; and at every point of
\* the Moore refinement and in its result two states of one block have the
\* same state color.
C27_InitialPartitions ==
    /\ (Started /\ variant = "mealy") =>
          /\ partition = <<States(mm)>>
          /\ queue = <<States(mm)>>
    /\ (Started /\ variant = "moore") =>
          /\ Blocks(partition) = {states_with_color(mm.scolor[s]) : s \in States(mm)}
          /\ Len(partition) = Cardinality({mm.scolor[s] : s \in States(mm)})
          /\ queue = partition
    /\ (variant = "moore" /\ rpc \in {"loop", "split", "done"}) =>
          \A s \in States(mm) : \A t \in States(mm) :
              SameBlock(s, t) => mm.scolor[s] = mm.scolor[t]

\* the Moore refiner has split a block of its initial partition, which had
\* a block for each of the two colors
C27_Witness ==
    /\ variant = "moore"
    /\ rpc \in {"loop", "split"}
    /\ set # {}
    /\ Cardinality({mm.scolor[s] : s \in States(mm)}) = 2
    /\ Len(partition) = 3


(***************************************************************************)
(* PreciseDPAEdgesFrom (precise.rs, lines 230-247): the items of the       *)
(* iterator edges_from(state) returns.  next() takes the next symbol o of  *)
(* the alphabet's universe and builds the transition (state, o, i, q) from *)
(* (i, q) = take_precise_transition(state, o); a panic of that call is a   *)
(* panic of next().                                                        *)
(***************************************************************************)
PreciseDPAEdgesFrom(st) ==
    [n \in 1..cong.k |->
        LET o == n - 1
            r == take_precise_transition(st, o)
        IN  IF r.ok
            THEN [ok |-> TRUE, source |-> st, expression |-> o,
                  color |-> r.color, target |-> r.target]
            ELSE r]

\* C28: for every composite state that the exploration reaches on a
\* well-formed input, edges_from yields exactly one edge per alphabet
\* symbol, and the edge for symbol a starts in the state and has the color
\* and the target that take_precise_transition(state, a) returns: the
\* precise DPA is deterministic and complete on the state.
C28_OneEdgePerSymbol ==
    WellFormed =>
        \A st \in seen :
            LET edges == PreciseDPAEdgesFrom(st) IN
            \A a \in Symbols(cong) :
                /\ Cardinality({n \in DOMAIN edges :
                                   edges[n].ok /\ edges[n].expression = a}) = 1
                /\ \A n \in DOMAIN edges :
                      (edges[n].ok /\ edges[n].expression = a) =>
                          /\ edges[n].source = st
                          /\ take_precise_transition(st, a).ok
                          /\ edges[n].color = take_precise_transition(st, a).color
                          /\ edges[n].target = take_precise_transition(st, a).target


\* the class the leading congruence reaches on w from class c, None when
\* it has no run on w
RECURSIVE leading_class(_, _)
leading_class(c, w) ==
    IF w = <<>> \/ c = None THEN c
    ELSE leading_class(successor_index(cong, c, Head(w)), Tail(w))

\* C29: after any word read from the initial composite state the class of
\* the reached composite state is the class that the leading congruence
\* reaches on that word from its initial class.
C29_ClassFollowsLeadingCongruence ==
    pc = "ready" => q.class = leading_class(cong.initial, word)

\* a word of two or more symbols has been read, the last symbol changed the
\* class, and a progress level still tracks another class
C29_Witness ==
    /\ pc = "ready"
    /\ Len(word) >= 2
    /\ q.class # prev.class
    /\ q.class # cong.initial
    /\ \E i \in Levels : q.progress_classes[i] # q.class


(***************************************************************************)
(* Conversions into automata (representation.rs, IntoTs; ts/builder.rs).   *)
(***************************************************************************)
\* lines 140-142 and 181-185: into_dts_preserving().unzip_state_color()
into_dts(t) == unzip_state_color(collect_dts_preserving(t))

\* lines 203-207: the states recolored with Void, the initial state 0
into_mealy(t) ==
    LET d == erase_state_colors(into_dts(t)) IN
    IF d.size > 0 THEN [d EXCEPT !.initial = 0]
    ELSE Panic("ts.size() > 0")

\* builder.rs, lines 295-300:
\* default_color(Void).into_dts().with_initial(initial).into_mealy()
TSBuilder_into_mealy(t, initial) ==
    into_mealy(with_initial(as_ts(into_dts(t)), initial))

(***************************************************************************)
(* SpecInto: a transition system with edge colors, built by a TSBuilder,   *)
(* is turned into a Moore machine with into_moore_with_initial(q) and into *)
(* a Mealy machine with TSBuilder::into_mealy(q), as tests::representation *)
(* does for q = 0.                                                         *)
(***************************************************************************)
InitInto ==
    /\ PreciseIdle
    /\ RefineIdle
    /\ \E n \in 1..MaxStates :
          \E d \in Deltas(n, NumSymbols) : \E ec \in EdgeColorings(n, NumSymbols) :
              /\ input = as_ts(Machine(n, NumSymbols, None, d, ec, [s \in 0..(n - 1) |-> Void]))
              /\ arg \in 0..(n - 1)
    /\ other = None
    /\ result = None
    /\ op = "call"

IntoMooreWithInitial ==
    /\ op = "call"
    /\ result' = [moore |-> into_moore_with_initial(as_ts(into_dts(input)), arg),
                  mealy |-> NoMachine]
    /\ op' = "moore"
    /\ UNCHANGED <<pvars, xvars, mvars, input, other, arg>>

IntoMealy ==
    /\ op = "moore"
    /\ result' = [result EXCEPT !.mealy = TSBuilder_into_mealy(input, arg)]
    /\ op' = "done"
    /\ UNCHANGED <<pvars, xvars, mvars, input, other, arg>>

NextInto ==
    \/ IntoMooreWithInitial
    \/ IntoMealy

SpecInto == InitInto /\ [][NextInto]_vars

\* C30: the Mealy machine built with into_mealy(q) starts in q, as the
\* Moore machine built with into_moore_with_initial(q) does, and both have
\* as many states as the transition system they are built from.
C30_MealyKeepsInitial ==
    op = "done" =>
        /\ result.mealy.initial = arg
        /\ result.moore.initial = arg
        /\ result.mealy.size = Len(input.ids)
        /\ result.moore.size = Len(input.ids)


\* mutant of union: the product accepts where both operands accept
union_both(d, e) ==
    LET other_initial == e.initial
        t == ts_product(d, e)
    IN  collect_dfa(with_initial(
            [t EXCEPT !.scolor = [s \in DOMAIN t.scolor |-> t.scolor[s][1] /\ t.scolor[s][2]]],
            ProductIndex(d.initial, other_initial, e)))

\* lines 123-135
union(d, e) ==
    LET other_initial == e.initial
        t == ts_product(d, e)
    IN  collect_dfa(with_initial(
            [t EXCEPT !.scolor = [s \in DOMAIN t.scolor |-> t.scolor[s][1] \/ t.scolor[s][2]]],
            ProductIndex(d.initial, other_initial, e)))

(***************************************************************************)
(* SpecBool: negation, intersection and union called on complete DFAs, as  *)
(* tests::dfas_and_boolean_operations (automaton.rs, lines 575-601) calls  *)
(* them: the negation of self, the intersection and the union of self with *)
(* other, and of self with its own negation.                               *)
(***************************************************************************)
BooleanOperations ==
    /\ op = "call"
    /\ result' = [negation |-> negation(input),
                  intersection |-> intersection(input, other),
                  union |-> union(input, other),
                  none |-> intersection(input, negation(input)),
                  all |-> union(input, negation(input))]
    /\ op' = "done"
    /\ UNCHANGED <<pvars, xvars, mvars, input, other, arg>>

NextBool == BooleanOperations

SpecBool == InitEquiv /\ [][NextBool]_vars

\* the words that tell any two of the DFAs at hand apart
BoolWords == WordsUpTo(input, MaxDfaStates * MaxDfaStates)

\* C31: on every word the negation accepts iff the DFA rejects, the
\* intersection accepts iff both DFAs accept, the union accepts iff one of
\* them accepts; the intersection of a DFA with its negation accepts no
\* word and their union accepts every word.
C31_BooleanOperations ==
    op = "done" =>
        \A w \in BoolWords :
            /\ accepts(result.negation, w) <=> ~accepts(input, w)
            /\ accepts(result.intersection, w) <=> (accepts(input, w) /\ accepts(other, w))
            /\ accepts(result.union, w) <=> (accepts(input, w) \/ accepts(other, w))
            /\ ~accepts(result.none, w)
            /\ accepts(result.all, w)

\* two DFAs with two states each, neither language contained in the other,
\* both accepting some word and rejecting some word
C31_Witness ==
    /\ op = "done"
    /\ input.size = 2
    /\ other.size = 2
    /\ \E w \in BoolWords : accepts(input, w) /\ ~accepts(other, w)
    /\ \E w \in BoolWords : ~accepts(input, w) /\ accepts(other, w)
    /\ \E w \in BoolWords : accepts(result.intersection, w)
    /\ \E w \in BoolWords : ~accepts(result.union, w)


(***************************************************************************)
(* Rabin conditions (automaton/omega/rabin.rs).  A RabinPair is a record   *)
(* of the color sets fin and inf, a RabinCondition a set of pairs.         *)
(***************************************************************************)
MaxRabinColor == 2  \* the colors of Rabin pairs and runs are 0..MaxRabinColor
MaxPairs == 2       \* pairs of a Rabin condition

RabinPairs ==
    {[fin |-> f, inf |-> i] : f \in SUBSET (0..MaxRabinColor), i \in SUBSET (0..MaxRabinColor)}

\* a.intersection(b).next(): the least common element, None when there is
\* none
intersection_next(a, b) == IF a \cap b = {} THEN None ELSE Min(a \cap b)

\* mutant of satisfied_by_set: fin is not looked at
satisfied_by_set_without_fin(pair, cs) ==
    intersection_next(pair.inf, cs) # None

\* lines 64-67
satisfied_by_set(pair, cs) ==
    /\ intersection_next(pair.fin, cs) = None
    /\ intersection_next(pair.inf, cs) # None

\* lines 71-73: the colors of the iterator are collected into a set
satisfied_by_iter(pair, cs) ==
    satisfied_by_set(pair, {cs[i] : i \in 1..Len(cs)})

\* lines 82-90: cur is the set of edge colors the run observed
evaluate(condition, cur) ==
    \E pair \in condition : satisfied_by_iter(pair, ascending(cur))

(***************************************************************************)
(* SpecRabin: a Rabin condition of up to MaxPairs pairs is evaluated on a  *)
(* set of colors, every pair of it by satisfied_by_set.                    *)
(***************************************************************************)
InitRabin ==
    /\ PreciseIdle
    /\ RefineIdle
    /\ \E S \in SUBSET (1..MaxPairs) : \E p \in [S -> RabinPairs] :
          input = {p[i] : i \in S}
    /\ arg \in SUBSET (0..MaxRabinColor)
    /\ other = None
    /\ result = None
    /\ op = "call"

Evaluate ==
    /\ op = "call"
    /\ result' = [pairs |-> [pair \in input |-> satisfied_by_set(pair, arg)],
                  condition |-> evaluate(input, arg)]
    /\ op' = "done"
    /\ UNCHANGED <<pvars, xvars, mvars, input, other, arg>>

NextRabin == Evaluate

SpecRabin == InitRabin /\ [][NextRabin]_vars

\* cs holds no color of fin and some color of inf
PairHolds(pair, cs) ==
    /\ \A c \in pair.fin : c \notin cs
    /\ \E c \in pair.inf : c \in cs

\* C32: a Rabin pair is satisfied by a set of colors if and only if the set
\* contains no element of fin and at least one element of inf, and a Rabin
\* condition is satisfied by the set iff at least one of its pairs is.
C32_RabinSatisfaction ==
    op = "done" =>
        /\ \A pair \in input : result.pairs[pair] <=> PairHolds(pair, arg)
        /\ result.condition <=> \E pair \in input : PairHolds(pair, arg)

\* a condition of two pairs: one is satisfied, the other has an inf color
\* in the set and fails on a fin color
C32_Witness ==
    /\ op = "done"
    /\ result.condition
    /\ \E pair \in input :
          /\ ~result.pairs[pair]
          /\ pair.inf \cap arg # {}
          /\ pair.fin \cap arg # {}


\* ---------------------------------------------------------------------
\* hoars: first_automaton_split_position (crates/hoars/src/lib.rs 420-435)
\* A string is a sequence of one-character strings; all markers are ASCII,
\* so byte offsets and character offsets coincide.
\* ---------------------------------------------------------------------

MaxTokens == 4

END_MARKER == <<"-", "-", "E", "N", "D", "-", "-">>

ABORT_MARKER == <<"-", "-", "A", "B", "O", "R", "T", "-", "-">>

\* const ENDLEN: usize = "--END--".len()
ENDLEN == Len(END_MARKER)

\* the pieces input strings are assembled from: markers, a truncated
\* marker, a lone dash and an ordinary character
Tokens == {END_MARKER, ABORT_MARKER, <<"-", "-", "E", "N", "D">>, <<"-">>, <<"H">>}

RECURSIVE Concat(_)
Concat(ts_) ==
    IF Len(ts_) = 0 THEN <<>> ELSE Head(ts_) \o Concat(Tail(ts_))

SplitInputs ==
    {Concat(t) : t \in UNION {[1..n -> Tokens] : n \in 0..MaxTokens}}

\* pat occurs in s at the 0-based offset i
occurs_at(s, pat, i) ==
    /\ i >= 0
    /\ i + Len(pat) <= Len(s)
    /\ SubSeq(s, i + 1, i + Len(pat)) = pat

\* str::rfind: offset of the last occurrence
rfind(s, pat) ==
    LET hits == {i \in 0..Len(s) : occurs_at(s, pat, i)}
    IN  IF hits = {} THEN None
        ELSE CHOOSE i \in hits : \A j \in hits : j <= i

\* str::find: offset of the first occurrence, None when there is none
find(s, pat) ==
    LET hits == {i \in 0..Len(s) : occurs_at(s, pat, i)}
    IN  IF hits = {} THEN None
        ELSE CHOOSE i \in hits : \A j \in hits : i <= j

InitSplit ==
    /\ PreciseIdle
    /\ RefineIdle
    /\ input \in SplitInputs
    /\ other = None
    /\ arg = [end |-> None, abort |-> None, again |-> FALSE]
    /\ result = None
    /\ op = "loop"

\* head of 'outer: loop: the two searches (the second only when the first
\* found a marker)
Find ==
    /\ op = "loop"
    /\ LET end == find(input, END_MARKER)
       IN  arg' = [end |-> end,
                   abort |-> IF end = None THEN None
                             ELSE find(input, ABORT_MARKER),
                   again |-> arg.again]
    /\ op' = "found"
    /\ UNCHANGED <<pvars, xvars, mvars, input, other, result>>

\* rest of the loop body: continue 'outer, return Some(end + ENDLEN) or
\* return None
Decide ==
    /\ op = "found"
    /\ IF arg.end # None /\ arg.abort # None /\ arg.abort < arg.end
       THEN /\ op' = "loop"
            /\ arg' = [end |-> None, abort |-> None, again |-> TRUE]
            /\ UNCHANGED result
       ELSE /\ op' = "done"
            /\ result' = IF arg.end # None THEN arg.end + ENDLEN ELSE None
            /\ UNCHANGED arg
    /\ UNCHANGED <<pvars, xvars, mvars, input, other>>

NextSplit == Find \/ Decide

SpecSplit == InitSplit /\ [][NextSplit]_vars

\* every iteration of the loop is eventually executed
SpecSplitLive == SpecSplit /\ WF_vars(NextSplit)

\* the offsets at which the "--END--" marker starts
EndOffsets == {i \in 0..Len(input) : occurs_at(input, END_MARKER, i)}

AbortOffsets == {i \in 0..Len(input) : occurs_at(input, ABORT_MARKER, i)}

FirstEnd == CHOOSE i \in EndOffsets : \A j \in EndOffsets : i <= j

C39_SplitTerminates == <>(op = "done")


(***************************************************************************)
(* Termination of the refinement loops (lines 32-71 and 135-170).          *)
(***************************************************************************)
\* the loop steps are executed as long as one is possible
SpecRefineLive == SpecRefine /\ WF_vars(NextRefine)

\* C34: both refinement loops terminate on every finite deterministic input
\* automaton: the worklist eventually becomes empty and the partition is
\* returned, because the worklist only grows when a block of the partition
\* is properly split (the partition grows with it) and the number of blocks
\* is bounded by the number of states.
C34_RefinementTerminates ==
    /\ <>(rpc = "done")
    /\ [](Len(partition) <= mm.size)
    /\ [][Len(queue') > Len(queue) => Len(partition') > Len(partition)]_vars

\* a run that ended with every state in a block of its own
C34_Witness ==
    /\ rpc = "done"
    /\ queue = <<>>
    /\ mm.size = MaxStates
    /\ Len(partition) = mm.size


(***************************************************************************)
(* Monotonicity of the refinement (lines 46-69 and 146-168).               *)
(***************************************************************************)
\* s and t lie in different blocks of part
separated(part, s, t) ==
    ~\E i \in 1..Len(part) : s \in part[i] /\ t \in part[i]

\* the blocks of the new partition that lie inside the block y
parts_of(new, y) == {i \in 1..Len(new) : new[i] \subseteq y}

\* C35: refinement is monotone: each partition held during the loop refines
\* the one held before it (a block is kept or replaced by two non-empty
\* disjoint subsets of itself, never merged or changed otherwise), so the
\* number of blocks never decreases and two states once separated stay
\* separated.
C35_RefinementMonotone ==
    [][rpc # "start" =>
        /\ \A i \in 1..Len(partition') :
              /\ partition'[i] # {}
              /\ \E j \in 1..Len(partition) : partition'[i] \subseteq partition[j]
        /\ \A j \in 1..Len(partition) :
              LET P == parts_of(partition', partition[j]) IN
              /\ Cardinality(P) \in {1, 2}
              /\ UNION {partition'[i] : i \in P} = partition[j]
              /\ \A a, b \in P : a # b => partition'[a] \cap partition'[b] = {}
        /\ Len(partition') >= Len(partition)
        /\ \A s, t \in States(mm) :
              separated(partition, s, t) => separated(partition', s, t)]_vars

\* in the middle of the loop, after two blocks have been split
C35_Witness ==
    /\ rpc = "split"
    /\ Len(initial_partition) = 1
    /\ Len(partition) = 3
    /\ queue # <<>>


(***************************************************************************)
(* Invariants of the composite states and colors of the precise DPA.       *)
(***************************************************************************)
\* C36: every color returned by a step of a width-N precise DPA lies in
\* 0..N-1 (hence is at most 7, N being at most MAX_PRIORITIES), on every
\* transition of every run.
C36_ColorsBelowWidth ==
    /\ Len(colors) > 0 => width <= MAX_PRIORITIES
    /\ \A j \in 1..Len(colors) :
          /\ colors[j] \in 0..(width - 1)
          /\ colors[j] <= MAX_PRIORITIES - 1

\* a run of full length that returned both the lowest and the highest color
C36_Witness ==
    /\ pc = "ready"
    /\ width = MaxWidth
    /\ Len(colors) = MaxWord
    /\ \E j \in 1..Len(colors) : colors[j] = 0
    /\ \E j \in 1..Len(colors) : colors[j] = width - 1

\* the indices of a composite state are in range: every tracked class is a
\* class of the leading congruence and every tracked state a state of the
\* progress DFA of that class and level
InRange(st) ==
    /\ st.class \in Classes
    /\ \A i \in Levels :
          /\ st.progress_classes[i] \in Classes
          /\ st.progress_states[i] \in States(dfas[st.progress_classes[i]][i])

\* C37: in every reachable composite state, including the initial one, the
\* top level N-1 is freshly reset: progress_classes[N-1] is the class
\* component and progress_states[N-1] is the initial state of the
\* level-(N-1) progress DFA of that class.
C37_TopLevelFreshlyReset ==
    (pc = "ready" /\ WellFormed) =>
        /\ q.progress_classes[width - 1] = q.class
        /\ q.progress_states[width - 1] = dfas[q.class][width - 1].initial

\* C38: in every reachable composite state and for every level i,
\* progress_classes[i] is an existing class and progress_states[i] an
\* existing state of dfas[progress_classes[i]][i]; no lookup in the DFA
\* table during construction of the initial state or during a step is out
\* of bounds, whatever the number of classes relative to N.
C38_IndicesInRange ==
    WellFormed =>
        /\ err # IndexOutOfBounds.msg
        /\ pc = "ready" => InRange(q)

====
